---- MODULE Spec2Model ----
(***************************************************************************)
(* Volcano InSAR Interpretation Workbench.  From app/data_utils.py: the    *)
(* matrix reshaper (_read_coherence, _read_insar_pair, pivot_and_clean,    *)
(* pivot_and_clean_insar, pivot_and_clean_dates), the baseline chart       *)
(* (_read_baseline, plot_baseline), the seismic event query                *)
(* (get_latest_quakes_chis_fsdn, get_latest_quakes_chis_fsdn_site), the    *)
(* summary builder (build_summary_table), the map markers                  *)
(* (read_targets_geojson, get_green_volcanoes, get_red_volcanoes) and the  *)
(* beam selector (populate_beam_selector).  From                           *)
(* scripts/get_latest_insar_pairs.py: the InSAR-pair file fetcher.         *)
(*                                                                         *)
(* Dates are day numbers.  A cell value is <<>> (NaN / None) or <<v>>,     *)
(* v in thousandths, so that round(2) is a rounding to a multiple of 10.   *)
(* A data frame is a record of its status ("returned", or the name of the  *)
(* exception the function raised), its row index and column index (both    *)
(* sequences, in frame order) and its cells.  Each part of the program has *)
(* its own specification over the common initial state.                    *)
(***************************************************************************)
EXTENDS Integers, Sequences, FiniteSets, TLC

\* ------------------------------------------------------------------ bounds
\* calendar days 1..MaxDate, plus day 13 (2020-01-13 when day 1 is 2020-01-01)
MaxDate == 2
\* number of records of one CSV file
MaxRecs == 3

\* age of the oldest event of the catalog, in days
MaxAgeDays == 40
\* number of events of one catalog response
MaxEvents == 1

\* number of records of the full-coherence table of one baseline chart
MaxPairs == 2
\* number of rows of one baseline file
MaxBaselineRows == 2

\* calendar days 1..MaxPlotDate of the records of one heatmap
MaxPlotDate == 4
\* number of records of the coherence table of one heatmap
MaxPlotRecs == 3

\* number of beams of one answer of the beams route
MaxBeamRows == 2

\* number of beams of one site of beamList.yml
MaxBeams == 2

Dates == (1 .. MaxDate) \cup {13}
\* 0.9 and 0.904, in thousandths
Values == {900, 904}

NaN == <<>>
Cells == {NaN} \cup {<<v>> : v \in Values}

Range(s) == {s[i] : i \in DOMAIN s}

RECURSIVE SortedSeq(_)
SortedSeq(S) ==
    IF S = {} THEN <<>>
    ELSE LET m == CHOOSE x \in S : \A y \in S : x <= y
         IN <<m>> \o SortedSeq(S \ {m})

\* ------------------------------------------------------------ the CSV files
CoherenceRecords ==
    [first_date : Dates, second_date : Dates, coherence : Cells]
InsarRecords ==
    [first_date : Dates, second_date : Dates, insar_pair : Cells]

RECURSIVE RowSets(_, _)
RowSets(Recs, n) ==
    IF n = 0 THEN {{}}
    ELSE LET smaller == RowSets(Recs, n - 1)
         IN smaller \cup {S \cup {r} : S \in smaller, r \in Recs}

\* a path is None, the path of a file that does not exist, or of a file
NoPath == [kind |-> "None", rows |-> {}]
MissingFile == [kind |-> "missing", rows |-> {}]
CsvFile(rows) == [kind |-> "file", rows |-> rows]
CoherenceCsvs ==
    {NoPath, MissingFile} \cup {CsvFile(S) : S \in RowSets(CoherenceRecords, MaxRecs)}
InsarCsvs ==
    {NoPath, MissingFile} \cup {CsvFile(S) : S \in RowSets(InsarRecords, MaxRecs)}

\* ------------------------------------------------------------ the readers
Table(status, rows) == [status |-> status, rows |-> rows]
NoTable == Table("unset", {})

wrong_order(rows, values) ==
    {r \in rows : r.second_date < r.first_date /\ r[values] # NaN}

_read_coherence_any_wrong_order(coherence_csv) ==
    IF coherence_csv.kind = "None" THEN Table("None", {})
    ELSE IF coherence_csv.kind = "missing" THEN Table("FileNotFoundError", {})
    ELSE IF \E r \in coherence_csv.rows : r.second_date < r.first_date
         THEN Table("RuntimeError", {})
         ELSE Table("returned", coherence_csv.rows)

_read_coherence(coherence_csv) ==
    IF coherence_csv.kind = "None" THEN Table("None", {})
    ELSE IF coherence_csv.kind = "missing" THEN Table("FileNotFoundError", {})
    ELSE IF wrong_order(coherence_csv.rows, "coherence") # {}
         THEN Table("RuntimeError", {})
         ELSE Table("returned", coherence_csv.rows)

_read_insar_pair(insar_pair_csv) ==
    IF insar_pair_csv.kind = "None" THEN Table("None", {})
    ELSE IF insar_pair_csv.kind = "missing" THEN Table("None", {})
    ELSE IF wrong_order(insar_pair_csv.rows, "insar_pair") # {}
         THEN Table("RuntimeError", {})
         ELSE Table("returned", insar_pair_csv.rows)

\* ------------------------------------------------------------ data frames
Frame(index, columns, cell) ==
    [status |-> "returned", index |-> index, columns |-> columns, cell |-> cell]
Raised(exception) ==
    [status |-> exception, index |-> <<>>, columns |-> <<>>,
     cell |-> [p \in {} |-> NaN]]
NoFrame == Raised("unset")

\* coh_long['delta_days'] = (second_date - first_date).dt.days
with_delta_days(long) ==
    {[f \in DOMAIN r \cup {"delta_days"} |->
        IF f = "delta_days" THEN r.second_date - r.first_date ELSE r[f]]
     : r \in long}

\* DataFrame.pivot(index='delta_days', columns='second_date', values=values)
pivot(long, values) ==
    IF \E a, b \in long :
          a # b /\ a.delta_days = b.delta_days /\ a.second_date = b.second_date
    THEN Raised("ValueError")
    ELSE LET index == SortedSeq({r.delta_days : r \in long})
             columns == SortedSeq({r.second_date : r \in long})
         IN Frame(index, columns,
                [p \in Range(index) \X Range(columns) |->
                    IF \E r \in long : r.delta_days = p[1] /\ r.second_date = p[2]
                    THEN (CHOOSE r \in long :
                            r.delta_days = p[1] /\ r.second_date = p[2])[values]
                    ELSE NaN])

\* wide.loc[0, :] = np.NaN  (enlarges the frame by a last row when 0 is new)
loc_zero_row_keep(wide) ==
    IF wide.status # "returned" THEN wide
    ELSE IF wide.columns = <<>> THEN Raised("ValueError")
    ELSE LET index == IF 0 \in Range(wide.index) THEN wide.index
                      ELSE Append(wide.index, 0)
         IN Frame(index, wide.columns,
                [p \in Range(index) \X Range(wide.columns) |->
                    IF p[1] \in Range(wide.index) THEN wide.cell[p] ELSE NaN])

loc_zero_row(wide) ==
    IF wide.status # "returned" THEN wide
    ELSE IF wide.columns = <<>> THEN Raised("ValueError")
    ELSE LET index == IF 0 \in Range(wide.index) THEN wide.index
                      ELSE Append(wide.index, 0)
         IN Frame(index, wide.columns,
                [p \in Range(index) \X Range(wide.columns) |->
                    IF p[1] = 0 THEN NaN ELSE wide.cell[p]])

\* wide.sort_index(inplace=True)
sort_index(wide) ==
    IF wide.status # "returned" THEN wide
    ELSE Frame(SortedSeq(Range(wide.index)), wide.columns, wide.cell)

\* round half to even, to hundredths
Round2(v) ==
    LET q == v \div 10
        r == v % 10
    IN IF r < 5 \/ (r = 5 /\ q % 2 = 0) THEN 10 * q ELSE 10 * (q + 1)

\* no rounding at all
round_2_none(wide) == wide

\* wide.round(2)
round_2(wide) ==
    IF wide.status # "returned" THEN wide
    ELSE Frame(wide.index, wide.columns,
            [p \in DOMAIN wide.cell |->
                IF wide.cell[p] = NaN THEN NaN ELSE <<Round2(wide.cell[p][1])>>])

\* ------------------------------------------------------------ trimming
\* a row (column) whose max over the other axis is not NaN
RowValid(wide, d) == \E c \in Range(wide.columns) : wide.cell[<<d, c>>] # NaN
ColValid(wide, c) == \E d \in Range(wide.index) : wide.cell[<<d, c>>] # NaN

\* the labels of the rows (columns) whose max is not NaN
ValidRows(wide) == {d \in Range(wide.index) : RowValid(wide, d)}
ValidCols(wide) == {c \in Range(wide.columns) : ColValid(wide, c)}

\* Series.first_valid_index / last_valid_index: <<label>>, or <<>> for None
first_valid_index(labels, valid) ==
    LET at == {i \in DOMAIN labels : labels[i] \in valid}
    IN IF at = {} THEN <<>>
       ELSE <<labels[CHOOSE i \in at : \A j \in at : i <= j]>>
last_valid_index(labels, valid) ==
    LET at == {i \in DOMAIN labels : labels[i] \in valid}
    IN IF at = {} THEN <<>>
       ELSE <<labels[CHOOSE i \in at : \A j \in at : i >= j]>>

\* frame.loc[row mask, column mask]
Restrict(wide, index, columns) ==
    Frame(index, columns,
        [p \in Range(index) \X Range(columns) |-> wide.cell[p]])

\* the trimming of pivot_and_clean, with the last valid row left out
trim_edges_short(coh_wide) ==
    IF coh_wide.status # "returned" THEN coh_wide
    ELSE LET cw_last_col == last_valid_index(coh_wide.index, ValidRows(coh_wide))
             cw_first_ind == first_valid_index(coh_wide.columns, ValidCols(coh_wide))
             cw_last_ind == last_valid_index(coh_wide.columns, ValidCols(coh_wide))
             KeepRow(d) == d >= 0 /\ cw_last_col # <<>> /\ d < cw_last_col[1]
             KeepCol(c) == c >= cw_first_ind[1] /\ c <= cw_last_ind[1]
         IN IF cw_first_ind = <<>> THEN Raised("TypeError")
            ELSE Restrict(coh_wide, SelectSeq(coh_wide.index, KeepRow),
                          SelectSeq(coh_wide.columns, KeepCol))

\* the trimming of pivot_and_clean, with every column kept
trim_edges_all_columns(coh_wide) ==
    IF coh_wide.status # "returned" THEN coh_wide
    ELSE LET cw_last_col == last_valid_index(coh_wide.index, ValidRows(coh_wide))
             cw_first_ind == first_valid_index(coh_wide.columns, ValidCols(coh_wide))
             KeepRow(d) == d >= 0 /\ cw_last_col # <<>> /\ d <= cw_last_col[1]
         IN IF cw_first_ind = <<>> THEN Raised("TypeError")
            ELSE Restrict(coh_wide, SelectSeq(coh_wide.index, KeepRow),
                          coh_wide.columns)

\* pivot_and_clean, "trim empty edges".  A comparison of the integer row
\* index with None is False everywhere; a comparison of the datetime column
\* index with None raises TypeError.
trim_edges(coh_wide) ==
    IF coh_wide.status # "returned" THEN coh_wide
    ELSE LET cw_last_col == last_valid_index(coh_wide.index, ValidRows(coh_wide))
             cw_first_ind == first_valid_index(coh_wide.columns, ValidCols(coh_wide))
             cw_last_ind == last_valid_index(coh_wide.columns, ValidCols(coh_wide))
             KeepRow(d) == d >= 0 /\ cw_last_col # <<>> /\ d <= cw_last_col[1]
             KeepCol(c) == c >= cw_first_ind[1] /\ c <= cw_last_ind[1]
         IN IF cw_first_ind = <<>> THEN Raised("TypeError")
            ELSE Restrict(coh_wide, SelectSeq(coh_wide.index, KeepRow),
                          SelectSeq(coh_wide.columns, KeepCol))

\* position of a label in an index
Position(labels, l) == CHOOSE i \in DOMAIN labels : labels[i] = l

\* pivot_and_clean_insar, "trim empty edges": dropna(how='all') on each
\* axis, then the label slice first:last (both ends included)
trim_edges_insar(insar_wide) ==
    IF insar_wide.status # "returned" THEN insar_wide
    ELSE LET RowOk(d) == RowValid(insar_wide, d)
             ColOk(c) == ColValid(insar_wide, c)
             valid_rows == SelectSeq(insar_wide.index, RowOk)
             valid_cols == SelectSeq(insar_wide.columns, ColOk)
         IN IF valid_rows = <<>> THEN Raised("IndexError")
            ELSE LET first_valid_row_index == valid_rows[1]
                     last_valid_row_index == valid_rows[Len(valid_rows)]
                     first_valid_col_index == valid_cols[1]
                     last_valid_col_index == valid_cols[Len(valid_cols)]
                 IN Restrict(insar_wide,
                        SubSeq(insar_wide.index,
                               Position(insar_wide.index, first_valid_row_index),
                               Position(insar_wide.index, last_valid_row_index)),
                        SubSeq(insar_wide.columns,
                               Position(insar_wide.columns, first_valid_col_index),
                               Position(insar_wide.columns, last_valid_col_index)))

pivot_and_clean(coh_long) ==
    trim_edges(round_2(sort_index(loc_zero_row(pivot(coh_long, "coherence")))))

pivot_and_clean_insar(insar_long) ==
    trim_edges_insar(
        round_2(sort_index(loc_zero_row(pivot(insar_long, "insar_pair")))))

\* ------------------------------------------------------------ seismic events
\* An event of the catalog: its age in half days (now - Time) and its place
\* in whole degrees.
target_centres == [Meager |-> <<50, 0 - 123>>]
initial_target == "Meager"
center_lat_long == target_centres[initial_target]
center_latitude == center_lat_long[1]
center_longitude == center_lat_long[2]
Events ==
    [Age : 0 .. 2 * MaxAgeDays,
     Latitude : {center_latitude, center_latitude + 2},
     Longitude : {center_longitude, center_longitude + 3}]

RECURSIVE EventLists(_)
EventLists(n) ==
    IF n = 0 THEN {<<>>}
    ELSE LET shorter == EventLists(n - 1)
         IN shorter \cup {Append(l, e) : l \in shorter, e \in Events}

\* what requests.get does: it raises ConnectionError or ReadTimeout, or it
\* returns a response with a status code and, for 200, the events
Responses ==
    {[kind |-> "ConnectionError", status_code |-> 0, events |-> <<>>],
     [kind |-> "ReadTimeout", status_code |-> 0, events |-> <<>>],
     [kind |-> "response", status_code |-> 204, events |-> <<>>],
     [kind |-> "response", status_code |-> 500, events |-> <<>>]}
    \cup {[kind |-> "response", status_code |-> 200, events |-> l]
          : l \in EventLists(MaxEvents)}

QuakeTable(status, columns, rows) ==
    [status |-> status, columns |-> columns, rows |-> rows]
NoQuakes == QuakeTable("unset", {}, <<>>)

\* -(Time - now).dt.days: the days of a negative timedelta are its floor
Time_Delta(event) == 0 - ((0 - event.Age) \div 2)

\* the conditions of np.select with the first one strict
conditions_strict(td) ==
    <<td < 2, td > 2 /\ td <= 7, td > 7 /\ td <= 31, td > 31>>

conditions(td) ==
    <<td <= 2, td > 2 /\ td <= 7, td > 7 /\ td <= 31, td > 31>>
values == <<"red", "orange", "yellow", "white">>

\* np.select(condlist, choicelist): the choice of the first condition that
\* holds, and the default 0 when none does
np_select(condlist, choicelist) ==
    LET hit == {i \in DOMAIN condlist : condlist[i]}
    IN IF hit = {} THEN "0"
       ELSE choicelist[CHOOSE i \in hit : \A j \in hit : i <= j]

with_quake_colour(event) ==
    [Age |-> event.Age, Latitude |-> event.Latitude,
     Longitude |-> event.Longitude,
     Time_Delta |-> Time_Delta(event),
     quake_colour |-> np_select(conditions(Time_Delta(event)), values)]

ColourEach(events) == [i \in DOMAIN events |-> with_quake_colour(events[i])]

EventColumns == {"#EventID", "Time", "Latitude", "Longitude"}

\* get_latest_quakes_chis_fsdn with ConnectionError left uncaught
get_latest_quakes_chis_fsdn_uncaught(response) ==
    IF response.kind # "response"
    THEN QuakeTable(response.kind, {}, <<>>)
    ELSE IF response.status_code = 200
    THEN QuakeTable("returned", EventColumns \cup {"Time_Delta", "quake_colour"},
                    ColourEach(response.events))
    ELSE QuakeTable("UnboundLocalError", {}, <<>>)

\* df is bound in the status 200 branch and in the except clause only
get_latest_quakes_chis_fsdn(response) ==
    IF response.kind = "ConnectionError"
    THEN QuakeTable("returned", {"#EventID"}, <<>>)
    ELSE IF response.kind # "response"
    THEN QuakeTable(response.kind, {}, <<>>)
    ELSE IF response.status_code = 200
    THEN QuakeTable("returned", EventColumns \cup {"Time_Delta", "quake_colour"},
                    ColourEach(response.events))
    ELSE QuakeTable("UnboundLocalError", {}, <<>>)

\* df[c1 & c2 & c3 & c4]
InBox(event) ==
    /\ event.Latitude >= center_latitude - 1
    /\ event.Latitude <= center_latitude + 1
    /\ event.Longitude >= center_longitude - 2
    /\ event.Longitude <= center_longitude + 2

get_latest_quakes_chis_fsdn_site(response) ==
    IF response.kind = "ConnectionError"
    THEN QuakeTable("returned", {"#EventID"}, <<>>)
    ELSE IF response.kind # "response"
    THEN QuakeTable(response.kind, {}, <<>>)
    ELSE IF response.status_code = 200
    THEN QuakeTable("returned", EventColumns \cup {"Time_Delta", "quake_colour"},
                    ColourEach(SelectSeq(response.events, InBox)))
    ELSE QuakeTable("returned", {}, <<>>)

\* ------------------------------------------------------------ summary table
\* A feature of the footprint GeoJSON: its id, a sequence of tokens (a
\* letter, a digit, or the word Edgecumbe), and properties.name_en.  The
\* API lists the features in this order.
AllFeatures ==
    <<[id |-> <<"Edgecumbe">>, name_en |-> "Mount Edgecumbe"],
      [id |-> <<"A", "1">>, name_en |-> "Mount Meager"],
      [id |-> <<"Mt", "Edgecumbe">>, name_en |-> "Edgecumbe Field"],
      [id |-> <<"B", "A">>, name_en |-> "Tseax Cone"] >>

\* the ids in the order of their strings: A1 < BA < Edgecumbe < MtEdgecumbe
IdOrder ==
    << <<"A", "1">>, <<"B", "A">>, <<"Edgecumbe">>, <<"Mt", "Edgecumbe">> >>
IdRank(id) == CHOOSE i \in DOMAIN IdOrder : IdOrder[i] = id

FeaturesAt(S) ==
    LET Listed(f) == \E i \in S : AllFeatures[i] = f
    IN SelectSeq(AllFeatures, Listed)

None == [kind |-> "None", features |-> <<>>]
GeoJson(features) == [kind |-> "geojson", features |-> features]
TargetsGeojsons ==
    {None} \cup {GeoJson(FeaturesAt(S)) : S \in SUBSET DOMAIN AllFeatures}

\* app/Data/unrest_table.csv, keyed by Site: <<>> for a site it does not list
UnrestCells == {<<>>, <<TRUE>>, <<FALSE>>}
UnrestTables == [{AllFeatures[i].name_en : i \in DOMAIN AllFeatures} -> UnrestCells]

\* str.contains('^A|Edgecumbe')
contains_A_or_Edgecumbe(id) ==
    \/ id[1] = "A"
    \/ \E i \in DOMAIN id : id[i] = "Edgecumbe"

\* what GET /targets/{site} gives: a ConnectionError, or the JSON of the
\* target, whose last_slc_datetime is null (<<>>) or a string, date first
SiteResponses ==
    {[kind |-> "ConnectionError", last_slc_datetime |-> <<>>, last_slc_beam_mode |-> ""],
     [kind |-> "response", last_slc_datetime |-> <<>>, last_slc_beam_mode |-> ""]}
    \cup {[kind |-> "response", last_slc_datetime |-> <<d, "T00:00:00">>,
           last_slc_beam_mode |-> "U12"] : d \in 1 .. MaxDate}

\* dt.today().date(): the last day of the calendar
today == CHOOSE d \in Dates : \A e \in Dates : e <= d
date_difference(date) == today - date

\* f'{last_slc_beam_mode} - {last_slc_date} ({date_difference} days ago)'
format_output(response) ==
    LET last_slc_date == response.last_slc_datetime[1]
    IN <<response.last_slc_beam_mode, "-", ToString(last_slc_date),
         ToString(date_difference(last_slc_date)), "days ago">>

SummaryTable(status, rows, calls) ==
    [status |-> status, rows |-> rows, calls |-> calls]
NoSummary == SummaryTable("unset", <<>>, <<>>)

SummaryRow(site, latest, unrest) ==
    [c \in {"Site", "Latest SAR Image", "Unrest"} |->
        IF c = "Site" THEN site
        ELSE IF c = "Latest SAR Image" THEN latest
        ELSE unrest]

\* the loop over targets_df['id'], after its first n sites: whether the
\* column 'Latest SAR Image' exists, its cells by row, and the calls made
RECURSIVE latest_sar_images(_, _, _)
latest_sar_images(targets, responses, n) ==
    IF n = 0
    THEN [has_column |-> FALSE, latest |-> [i \in DOMAIN targets |-> <<>>],
          calls |-> <<>>]
    ELSE LET before == latest_sar_images(targets, responses, n - 1)
             site == targets[n].id
             site_index == CHOOSE i \in DOMAIN targets :
                              /\ targets[i].id = site
                              /\ \A j \in DOMAIN targets :
                                    targets[j].id = site => i <= j
             response == responses[site]
             calls == Append(before.calls, site)
         IN IF response.kind = "ConnectionError"
            THEN [has_column |-> TRUE,
                  latest |-> [before.latest EXCEPT ![site_index] = <<>>],
                  calls |-> calls]
            ELSE IF response.last_slc_datetime # <<>>
            THEN [has_column |-> TRUE,
                  latest |-> [before.latest EXCEPT
                                 ![site_index] = <<format_output(response)>>],
                  calls |-> calls]
            ELSE [before EXCEPT !.calls = calls]

\* targets_df.sort_values('id')
sort_values_id(rows) ==
    LET ranks == SortedSeq({IdRank(rows[i].id) : i \in DOMAIN rows})
    IN [k \in DOMAIN ranks |->
          rows[CHOOSE i \in DOMAIN rows : IdRank(rows[i].id) = ranks[k]]]

\* the try block of build_summary_table and the return statement
summary_try(targs_geojson, unrest_table_df, responses) ==
    IF targs_geojson.kind = "None"
    THEN SummaryTable("NotImplementedError", <<>>, <<>>)
    ELSE IF targs_geojson.features = <<>>
    THEN SummaryTable("KeyError", <<>>, <<>>)
    ELSE LET Wanted(f) == contains_A_or_Edgecumbe(f.id)
             targets_df == SelectSeq(targs_geojson.features, Wanted)
             loop == latest_sar_images(targets_df, responses, Len(targets_df))
             merged == [i \in DOMAIN targets_df |->
                          [id |-> targets_df[i].id,
                           row |-> SummaryRow(targets_df[i].name_en,
                                              loop.latest[i],
                                              unrest_table_df[targets_df[i].name_en])]]
             sorted == sort_values_id(merged)
         IN IF ~loop.has_column
            THEN SummaryTable("KeyError", <<>>, loop.calls)
            ELSE SummaryTable("returned",
                              [i \in DOMAIN sorted |-> sorted[i].row],
                              loop.calls)

\* build_summary_table without its except clause
build_summary_table_uncaught(targs_geojson, unrest_table_df, responses) ==
    summary_try(targs_geojson, unrest_table_df, responses)

\* except NotImplementedError: the one-row table of the API error
build_summary_table(targs_geojson, unrest_table_df, responses) ==
    LET tried == summary_try(targs_geojson, unrest_table_df, responses)
    IN IF tried.status = "NotImplementedError"
       THEN SummaryTable("returned",
                << SummaryRow("API Connection Error", "API Connection Error",
                              "API Connection Error") >>,
                tried.calls)
       ELSE tried

\* the sites build_summary_table asks the API about
WantedIds(targs_geojson) ==
    {targs_geojson.features[i].id : i \in
        {j \in DOMAIN targs_geojson.features :
            contains_A_or_Edgecumbe(targs_geojson.features[j].id)}}

\* ------------------------------------------------- the reference-date matrix
\* the coherence files of a heatmap: _read_coherence refuses a file with a
\* coherence for a pair whose second_date is before its first_date
PlotRecords ==
    {r \in [first_date : 1 .. MaxPlotDate, second_date : 1 .. MaxPlotDate,
             coherence : {NaN, <<900>>}] :
        r.second_date < r.first_date => r.coherence = NaN}
PlotCsvs == {NoPath} \cup {CsvFile(S) : S \in RowSets(PlotRecords, MaxPlotRecs)}

\* strftime('%b %d, %Y') of a day of January 2020
strftime(date) ==
    <<"Jan", IF date < 10 THEN "0" \o ToString(date) ELSE ToString(date), "2020">>

\* pivot_and_clean_dates: the records with second_date < first_date are
\* dropped, first_date is pivoted and formatted (NaT stays), and the columns
\* that are also columns of coh_wide are kept, sorted
pivot_and_clean_dates(coh_long, coh_wide) ==
    LET kept == {r \in coh_long : ~(r.second_date < r.first_date)}
        pivoted == pivot(kept, "first_date")
        Filled(p) == \E r \in kept : r.delta_days = p[1] /\ r.second_date = p[2]
        date_wide == Frame(pivoted.index, pivoted.columns,
                        [p \in DOMAIN pivoted.cell |->
                            IF Filled(p) THEN strftime(pivoted.cell[p]) ELSE NaN])
        common_cols ==
            SortedSeq(Range(date_wide.columns) \cap Range(coh_wide.columns))
    IN IF pivoted.status # "returned" THEN pivoted
       ELSE Restrict(date_wide, date_wide.index, common_cols)

\* ------------------------------------------------------ the baseline chart
\* the rows _read_baseline keeps of a bperp file: the reference date, the
\* date of the image, and its perpendicular baseline in metres
reference_date == CHOOSE d \in Dates : \A e \in Dates : d <= e
Bperps == {0 - 50, 120}
BaselineRecords ==
    [first_date : {reference_date}, second_date : Dates, bperp : Bperps]
BaselineCsvs ==
    {NoPath, MissingFile}
    \cup {CsvFile(S) : S \in RowSets(BaselineRecords, MaxBaselineRows)}

\* pd.read_csv raises EmptyDataError for a file without rows
_read_baseline(baseline_csv) ==
    IF baseline_csv.kind = "None" THEN Table("None", {})
    ELSE IF baseline_csv.kind = "missing" THEN Table("None", {})
    ELSE IF baseline_csv.rows = {} THEN Table("EmptyDataError", {})
    ELSE Table("returned", baseline_csv.rows)

\* the full-coherence files of the chart: a pair has a coherence or none
PairRecords ==
    {r \in CoherenceRecords : r.coherence \in {NaN, <<900>>}}
CohfullCsvs ==
    {NoPath} \cup {CsvFile(S) : S \in RowSets(PairRecords, MaxPairs)}

\* go.Figure: the number of traces, the segments of the line trace and the
\* points of the marker trace
BaselineFigure(status, traces, segments, points) ==
    [status |-> status, traces |-> traces, segments |-> segments,
     points |-> points]
NoFigure == BaselineFigure("unset", 0, {}, {})

\* the rows of the right table a left row is merged with (how='left'):
\* each row whose second_date is the key, or no row at all
merge_rows(df_baseline, key) ==
    LET matching == {{r} : r \in {b \in df_baseline.rows : b.second_date = key}}
    IN IF matching = {} THEN {{}} ELSE matching

\* the bperp column after a left merge
merged_bperp(match) ==
    IF match = {} THEN NaN ELSE <<(CHOOSE r \in match : TRUE).bperp>>

\* the two merges: the rows of df_baseline_edge are the pairs with a
\* coherence, each with a matching row of its first_date and a matching
\* row of its second_date
baseline_edges(df_baseline, df_cohfull) ==
    LET edges == {r \in df_cohfull.rows : r.coherence # NaN}
        first_merge ==
            UNION {{[edge |-> e, reference |-> m] :
                      m \in merge_rows(df_baseline, e.first_date)} : e \in edges}
    IN UNION {{[edge |-> l.edge, reference |-> l.reference, pair |-> q] :
                 q \in merge_rows(df_baseline, l.edge.second_date)} :
              l \in first_merge}

\* the end points appended to edge_x and edge_y for a row
SegmentOf(row) ==
    [edge |-> row.edge, reference |-> row.reference, pair |-> row.pair,
     x |-> <<row.edge.first_date, row.edge.second_date>>,
     y |-> <<merged_bperp(row.reference), merged_bperp(row.pair)>>]

\* plot_baseline without the filter on bperp_reference_date
plot_baseline_unfiltered(df_baseline, df_cohfull) ==
    IF df_baseline.status = "None" \/ df_cohfull.status = "None"
    THEN BaselineFigure("returned", 0, {}, {})
    ELSE BaselineFigure("returned", 2,
            {SegmentOf(row) : row \in baseline_edges(df_baseline, df_cohfull)},
            {<<r.second_date, r.bperp>> : r \in df_baseline.rows})

plot_baseline(df_baseline, df_cohfull) ==
    IF df_baseline.status = "None" \/ df_cohfull.status = "None"
    THEN BaselineFigure("returned", 0, {}, {})
    ELSE LET df_baseline_edge ==
                {row \in baseline_edges(df_baseline, df_cohfull) :
                    merged_bperp(row.reference) # NaN}
         IN BaselineFigure("returned", 2,
                {SegmentOf(row) : row \in df_baseline_edge},
                {<<r.second_date, r.bperp>> : r \in df_baseline.rows})

\* -------------------------------------------------------------- map markers
\* geometry.coordinates[0] of the i-th footprint: a ring of x, y points
Footprint(i) ==
    << <<i - 124, 50>>, <<i - 122, 50>>, <<i - 122, 52>>, <<i - 124, 52>> >>

\* what GET /targets/geojson/ gives: a feature as the API sends it
ApiFeature(i) ==
    [id |-> AllFeatures[i].id,
     name_en |-> AllFeatures[i].name_en,
     geometry |-> [type |-> "Polygon", coordinates |-> <<Footprint(i)>>],
     tooltip |-> <<>>]

\* requests.get either raises ConnectionError or ReadTimeout (the 10 s
\* timeout elapsed while reading), or gives a body: not JSON, or a GeoJSON
FootprintAnswer(kind, S) ==
    [kind |-> kind,
     features |-> LET listed == SortedSeq(S) IN [k \in DOMAIN listed |-> ApiFeature(listed[k])]]
FootprintAnswers ==
    {FootprintAnswer(kind, {}) : kind \in {"ConnectionError", "ReadTimeout", "not JSON"}}
    \cup {FootprintAnswer("geojson", S) : S \in SUBSET DOMAIN AllFeatures}
NoAnswer == FootprintAnswer("unset", {})

RECURSIVE Sum(_, _)
Sum(coords, axis) ==
    IF coords = <<>> THEN 0
    ELSE coords[1][axis] + Sum(Tail(coords), axis)

\* total_x / num_points, total_y / num_points (the footprints have whole
\* centroids)
calculate_centroid(coords) ==
    <<Sum(coords, 1) \div Len(coords), Sum(coords, 2) \div Len(coords)>>

calculate_and_append_centroids(features) ==
    [k \in DOMAIN features |->
        [features[k] EXCEPT
            !.geometry =
                [type |-> "Point",
                 coordinates |->
                    calculate_centroid(features[k].geometry.coordinates[1])]]]

\* the html.Div of the tooltip: the site and whether unrest is observed
tooltip(feature, unrest_table_df) ==
    LET listed == unrest_table_df[feature.name_en]
        unrest_bool == IF listed # <<>> THEN listed[1] ELSE FALSE
    IN <<"Site", feature.id, "Unrest Observed", unrest_bool>>

\* the value read_targets_geojson returns, or the exception it raises:
\* only requests.exceptions.ConnectionError is caught
read_targets_geojson(answer, unrest_table_df) ==
    IF answer.kind = "ConnectionError" THEN None
    ELSE IF answer.kind = "ReadTimeout"
    THEN [kind |-> "ReadTimeout", features |-> <<>>]
    ELSE IF answer.kind = "not JSON"
    THEN [kind |-> "JSONDecodeError", features |-> <<>>]
    ELSE LET with_centroids == calculate_and_append_centroids(answer.features)
         IN GeoJson([k \in DOMAIN with_centroids |->
                       [with_centroids[k] EXCEPT
                          !.tooltip = tooltip(with_centroids[k], unrest_table_df)]])

\* dash_leaflet.Marker
Marker(position, children, id) ==
    [position |-> position, children |-> children, id |-> id]
MarkerOf(point) ==
    Marker(<<point.geometry.coordinates[2], point.geometry.coordinates[1]>>,
           point.tooltip, <<"marker", point.name_en>>)
Markers(status, markers) == [status |-> status, markers |-> markers]
NoMarkers == Markers("unset", <<>>)

\* summary_table_df.loc[Site == name_en]['Unrest'].values[0]
unrest_of(summary, feature) ==
    LET i == CHOOSE k \in DOMAIN summary.rows :
                /\ summary.rows[k]["Site"] = feature.name_en
                /\ \A j \in DOMAIN summary.rows :
                      summary.rows[j]["Site"] = feature.name_en => k <= j
    IN summary.rows[i]["Unrest"]

\* bool(): NaN is true
Truthy(cell) == cell # <<FALSE>>

\* the calls before the try: an exception of read_targets_geojson or of
\* build_summary_table leaves the function
Propagated(targs_geojson, summary) ==
    IF targs_geojson.kind \notin {"None", "geojson"} THEN targs_geojson.kind
    ELSE IF summary.status # "returned" THEN summary.status
    ELSE ""

green_point_features(targs_geojson, summary) ==
    LET Kept(feature) ==
            /\ feature.id[1] = "A"
            /\ feature.geometry.type = "Point"
            /\ ~Truthy(unrest_of(summary, feature))
    IN SelectSeq(targs_geojson.features, Kept)

red_point_features(targs_geojson, summary) ==
    LET Kept(feature) ==
            /\ feature.id[1] = "A" \/ feature.id = <<"Edgecumbe">>
            /\ feature.geometry.type = "Point"
            /\ Truthy(unrest_of(summary, feature))
    IN SelectSeq(targs_geojson.features, Kept)

\* get_green_volcanoes without its except clause: None['features'] raises
get_green_volcanoes_uncaught(targs_geojson, summary) ==
    IF Propagated(targs_geojson, summary) # ""
    THEN Markers(Propagated(targs_geojson, summary), <<>>)
    ELSE IF targs_geojson.kind = "None"
    THEN Markers("TypeError", <<>>)
    ELSE LET points == green_point_features(targs_geojson, summary)
         IN Markers("returned", [k \in DOMAIN points |-> MarkerOf(points[k])])

\* None['features'] raises TypeError: the except clause gives one marker
get_green_volcanoes(targs_geojson, summary) ==
    IF Propagated(targs_geojson, summary) # ""
    THEN Markers(Propagated(targs_geojson, summary), <<>>)
    ELSE IF targs_geojson.kind = "None"
    THEN Markers("returned",
                 << Marker(<<0, 0>>, <<"API Error">>, <<"TypeError_green">>) >>)
    ELSE LET points == green_point_features(targs_geojson, summary)
         IN Markers("returned", [k \in DOMAIN points |-> MarkerOf(points[k])])

get_red_volcanoes(targs_geojson, summary) ==
    IF Propagated(targs_geojson, summary) # ""
    THEN Markers(Propagated(targs_geojson, summary), <<>>)
    ELSE IF targs_geojson.kind = "None"
    THEN Markers("returned",
                 << Marker(<<0, 0>>, <<"API Error">>, <<"TypeError_red">>) >>)
    ELSE LET points == red_point_features(targs_geojson, summary)
         IN Markers("returned", [k \in DOMAIN points |-> MarkerOf(points[k])])

\* ---------------------------------------------------------- the beam selector
\* the targets of the /targets route: label, name_en and the ring
\* geometry.coordinates[0], in hundredths of a degree
AllTargets ==
    <<[label |-> "T1", name_en |-> "Meager",
       ring |-> << <<0 - 12360, 5060>>, <<0 - 12350, 5060>>, <<0 - 12351, 5071>> >>],
      [label |-> "T2", name_en |-> "Garibaldi",
       ring |-> << <<0 - 12300, 4980>>, <<0 - 12290, 4990>>, <<0 - 12301, 4991>> >>] >>

\* the beams of the /beams route; no target has the label T9
AllBeams == [short_name : {"5M3", "3M6"}, target_label : {"T1", "T2", "T9"}]

RECURSIVE BeamLists(_)
BeamLists(n) ==
    IF n = 0 THEN {<<>>}
    ELSE LET shorter == BeamLists(n - 1)
         IN shorter \cup {Append(l, b) : l \in shorter, b \in AllBeams}

\* get_api_response: the parsed list, or for a RequestException the dict
\* {'API Response Error': [...]}, whose iteration gives that one key
ApiList(items) == [kind |-> "list", items |-> items]
ApiError == [kind |-> "API Response Error", items |-> <<"API Response Error">>]
NoApiResponse == [kind |-> "unset", items |-> <<>>]
BeamResponses == {ApiError} \cup {ApiList(l) : l \in BeamLists(MaxBeamRows)}
TargetResponses ==
    {ApiError}
    \cup {ApiList(LET Listed(t) == t.label \in S IN SelectSeq(AllTargets, Listed)) :
            S \in SUBSET {"T1", "T2"}}

\* round(total / n, 2) of hundredths: to the nearest, halves to even
round_mean(total, n) ==
    LET q == total \div n
        r == total % n
    IN IF 2 * r < n THEN q
       ELSE IF 2 * r > n THEN q + 1
       ELSE IF q % 2 = 0 THEN q ELSE q + 1

calc_polygon_centroid(coordinates) ==
    <<round_mean(Sum(coordinates, 1), Len(coordinates)),
      round_mean(Sum(coordinates, 2), Len(coordinates))>>

\* beam_dict[key] = value
Put(beam_dict, key, value) ==
    {entry \in beam_dict : entry.key # key} \cup {[key |-> key, value |-> value]}

ErrorKey == <<"API Response Error", "">>
ErrorEntry(beam_dict) == Put(beam_dict, ErrorKey, <<5064, 0 - 12360>>)

\* the loop over beam_response_dict after n of its items: the exception
\* that left the function (or ""), beam_dict, and matching_target, which
\* is unbound (<<>>) until a label matches and is not reset for a new beam
RECURSIVE beam_loop(_, _, _)
beam_loop(beam_response_dict, targets_response_dict, n) ==
    IF n = 0
    THEN [raised |-> "", beam_dict |-> {}, matching_target |-> <<>>]
    ELSE LET before == beam_loop(beam_response_dict, targets_response_dict, n - 1)
             beam == beam_response_dict.items[n]
             targets == targets_response_dict.items
         IN IF before.raised # "" THEN before
            ELSE IF beam_response_dict.kind # "list"
                    \/ (targets_response_dict.kind # "list" /\ targets # <<>>)
            THEN [before EXCEPT !.beam_dict = ErrorEntry(before.beam_dict)]
            ELSE LET matches == {i \in DOMAIN targets :
                                    targets[i].label = beam.target_label}
                     matching_target ==
                        IF matches = {} THEN before.matching_target
                        ELSE <<targets[CHOOSE i \in matches :
                                          \A j \in matches : j <= i]>>
                 IN IF matching_target = <<>>
                    THEN [before EXCEPT !.raised = "UnboundLocalError"]
                    ELSE LET centroid ==
                                calc_polygon_centroid(matching_target[1].ring)
                         IN [raised |-> "",
                             beam_dict |->
                                Put(before.beam_dict,
                                    <<matching_target[1].name_en, beam.short_name>>,
                                    <<centroid[2], centroid[1]>>),
                             matching_target |-> matching_target]

BeamDict(status, entries) == [status |-> status, entries |-> entries]
NoBeamDict == BeamDict("unset", {})

populate_beam_selector(beam_response_dict, targets_response_dict) ==
    LET done == beam_loop(beam_response_dict, targets_response_dict,
                          Len(beam_response_dict.items))
    IN IF done.raised # "" THEN BeamDict(done.raised, {})
       ELSE BeamDict("returned", done.beam_dict)

\* ------------------------------------------------ the InSAR-pair file fetcher
\* app/Data/beamList.yml: the sites in file order, each with its beams
Sites == <<"Meager", "Garibaldi">>
BeamName(k) == "5M" \o ToString(k)
BeamListYmls ==
    {[i \in DOMAIN Sites |->
        [site |-> Sites[i],
         beams |-> LET listed == SortedSeq(chosen[i])
                   IN [k \in DOMAIN listed |-> BeamName(listed[k])]]] :
     chosen \in [DOMAIN Sites -> SUBSET (1 .. MaxBeams)]}

\* for site in beam_list: for beam in beam_list[site]: the (site, beam)
\* pairs in the order of the two loops
RECURSIVE SiteBeams(_)
SiteBeams(yml) ==
    IF yml = <<>> THEN <<>>
    ELSE [k \in DOMAIN yml[1].beams |-> <<yml[1].site, yml[1].beams[k]>>]
         \o SiteBeams(Tail(yml))

\* s3.download_file without the except clause: a missing object raises
download_file_uncaught(site_beam, objects, files) ==
    IF site_beam \in objects
    THEN [raised |-> "", files |-> files \cup {site_beam}]
    ELSE [raised |-> "ClientError", files |-> files]

\* s3.download_file inside the try: ClientError is printed and dropped
download_file(site_beam, objects, files) ==
    IF site_beam \in objects
    THEN [raised |-> "", files |-> files \cup {site_beam}]
    ELSE [raised |-> "", files |-> files]

\* ------------------------------------------------------------------ state
VARIABLES
    coherence_csv,  \* the coherence file of the request
    coh_long,       \* what _read_coherence returned
    coh_wide,       \* what pivot_and_clean returned
    coh_retrim,     \* coh_wide trimmed once more
    insar_pair_csv, \* the InSAR-pair file of the request
    insar_long,     \* what _read_insar_pair returned
    insar_wide,     \* what pivot_and_clean_insar returned
    insar_retrim,   \* insar_wide trimmed once more
    quake_call,     \* the event query called: "", "fsdn" or "fsdn_site"
    quake_response, \* what the event catalog answered
    quake_df,       \* what the event query returned
    targets_geojson,  \* the footprints read_targets_geojson returned
    unrest_table,     \* app/Data/unrest_table.csv
    site_responses,   \* what GET /targets/{site} gives, by site
    summary_table_df, \* what build_summary_table returned
    footprint_answer, \* what GET /targets/geojson/ gives while the map is drawn
    map_unrest,       \* app/Data/unrest_table.csv while the map is drawn
    map_responses,    \* what GET /targets/{site} gives while the map is drawn
    green_markers,    \* what get_green_volcanoes returned
    red_markers,      \* what get_red_volcanoes returned
    df_baseline,        \* what _read_baseline returned for the chart
    df_cohfull,         \* what _read_coherence returned for the chart
    bperp_combined_fig, \* what plot_baseline returned
    heatmap_long,       \* the coh_long plot_coherence was called with
    heatmap_wide,       \* the coh_wide of plot_coherence
    date_wide,          \* the date_wide of plot_coherence
    beam_response,      \* what get_api_response gave for the route beams
    targets_response,   \* what get_api_response gave for the route targets
    beam_dict,          \* what populate_beam_selector returned
    fetch_pc,           \* get_latest_insar_pairs: "idle", "loop", "done" or
                        \* the exception that left it
    beam_list,          \* the (site, beam) pairs of beamList.yml, in loop order
    fetch_next,         \* position in beam_list of the next iteration
    bucket_objects,     \* (site, beam) whose InSAR_Pair_All.csv is in the bucket
    local_dirs,         \* (site, beam) whose directory app/Data/site/beam exists
    local_files,        \* (site, beam) whose InSAR_Pair_All.csv was downloaded
    download_calls      \* the download_file calls made, in order

reshape_vars == <<coherence_csv, coh_long, coh_wide, coh_retrim,
                  insar_pair_csv, insar_long, insar_wide, insar_retrim>>
quake_vars == <<quake_call, quake_response, quake_df>>
summary_vars == <<targets_geojson, unrest_table, site_responses, summary_table_df>>
marker_vars == <<footprint_answer, map_unrest, map_responses,
                 green_markers, red_markers>>
baseline_vars == <<df_baseline, df_cohfull, bperp_combined_fig>>
plot_vars == <<heatmap_long, heatmap_wide, date_wide>>
beam_vars == <<beam_response, targets_response, beam_dict>>
fetch_vars == <<fetch_pc, beam_list, fetch_next, bucket_objects, local_dirs,
                local_files, download_calls>>
vars == <<reshape_vars, quake_vars, summary_vars, marker_vars, baseline_vars,
          plot_vars, beam_vars, fetch_vars>>

NoUnrestTable == [n \in {} |-> <<>>]
NoResponses == [site \in {} |-> <<>>]

SummaryInit ==
    /\ targets_geojson = None
    /\ unrest_table = NoUnrestTable
    /\ site_responses = NoResponses
    /\ summary_table_df = NoSummary

MarkerInit ==
    /\ footprint_answer = NoAnswer
    /\ map_unrest = NoUnrestTable
    /\ map_responses = NoResponses
    /\ green_markers = NoMarkers
    /\ red_markers = NoMarkers

BaselineInit ==
    /\ df_baseline = NoTable
    /\ df_cohfull = NoTable
    /\ bperp_combined_fig = NoFigure

PlotInit ==
    /\ heatmap_long = NoTable
    /\ heatmap_wide = NoFrame
    /\ date_wide = NoFrame

BeamInit ==
    /\ beam_response = NoApiResponse
    /\ targets_response = NoApiResponse
    /\ beam_dict = NoBeamDict

FetchInit ==
    /\ fetch_pc = "idle"
    /\ beam_list = <<>>
    /\ fetch_next = 1
    /\ bucket_objects = {}
    /\ local_dirs = {}
    /\ local_files = {}
    /\ download_calls = <<>>

NoResponse == [kind |-> "unset", status_code |-> 0, events |-> <<>>]

QuakeInit ==
    /\ quake_call = ""
    /\ quake_response = NoResponse
    /\ quake_df = NoQuakes

ReshapeInit ==
    /\ coherence_csv = NoPath
    /\ coh_long = NoTable
    /\ coh_wide = NoFrame
    /\ coh_retrim = NoFrame
    /\ insar_pair_csv = NoPath
    /\ insar_long = NoTable
    /\ insar_wide = NoFrame
    /\ insar_retrim = NoFrame

\* no table of a request is held: every entity is recomputed per request
Idle == coh_long = NoTable /\ insar_long = NoTable

\* a request reads the coherence file of its target
ReadCoherence ==
    /\ Idle
    /\ \E csv \in CoherenceCsvs :
        /\ coherence_csv' = csv
        /\ coh_long' = _read_coherence(csv)
    /\ UNCHANGED <<coh_wide, coh_retrim,
                   insar_pair_csv, insar_long, insar_wide, insar_retrim>>
    /\ UNCHANGED <<quake_vars, summary_vars, marker_vars, baseline_vars,
                   plot_vars, beam_vars, fetch_vars>>

\* a request reads the InSAR-pair file of its target
ReadInsarPair ==
    /\ Idle
    /\ \E csv \in InsarCsvs :
        /\ insar_pair_csv' = csv
        /\ insar_long' = _read_insar_pair(csv)
    /\ UNCHANGED <<coherence_csv, coh_long, coh_wide, coh_retrim,
                   insar_wide, insar_retrim>>
    /\ UNCHANGED <<quake_vars, summary_vars, marker_vars, baseline_vars,
                   plot_vars, beam_vars, fetch_vars>>

\* the request is answered and its tables are dropped
EndRequest ==
    /\ ~Idle
    /\ coherence_csv' = NoPath
    /\ coh_long' = NoTable
    /\ coh_wide' = NoFrame
    /\ coh_retrim' = NoFrame
    /\ insar_pair_csv' = NoPath
    /\ insar_long' = NoTable
    /\ insar_wide' = NoFrame
    /\ insar_retrim' = NoFrame
    /\ UNCHANGED <<quake_vars, summary_vars, marker_vars, baseline_vars,
                   plot_vars, beam_vars, fetch_vars>>

\* plot_coherence: delta_days, then pivot_and_clean
PivotAndClean ==
    /\ coh_long.status = "returned"
    /\ coh_wide = NoFrame
    /\ coh_wide' = pivot_and_clean(with_delta_days(coh_long.rows))
    /\ UNCHANGED <<coherence_csv, coh_long, coh_retrim,
                   insar_pair_csv, insar_long, insar_wide, insar_retrim>>
    /\ UNCHANGED <<quake_vars, summary_vars, marker_vars, baseline_vars,
                   plot_vars, beam_vars, fetch_vars>>

PivotAndCleanInsar ==
    /\ insar_long.status = "returned"
    /\ insar_wide = NoFrame
    /\ insar_wide' = pivot_and_clean_insar(with_delta_days(insar_long.rows))
    /\ UNCHANGED <<coherence_csv, coh_long, coh_wide, coh_retrim,
                   insar_pair_csv, insar_long, insar_retrim>>
    /\ UNCHANGED <<quake_vars, summary_vars, marker_vars, baseline_vars,
                   plot_vars, beam_vars, fetch_vars>>

\* the trimming step once more, on the matrix it produced
Retrim ==
    /\ coh_wide.status = "returned"
    /\ coh_retrim = NoFrame
    /\ coh_retrim' = trim_edges(coh_wide)
    /\ UNCHANGED <<coherence_csv, coh_long, coh_wide,
                   insar_pair_csv, insar_long, insar_wide, insar_retrim>>
    /\ UNCHANGED <<quake_vars, summary_vars, marker_vars, baseline_vars,
                   plot_vars, beam_vars, fetch_vars>>

RetrimInsar ==
    /\ insar_wide.status = "returned"
    /\ insar_retrim = NoFrame
    /\ insar_retrim' = trim_edges_insar(insar_wide)
    /\ UNCHANGED <<coherence_csv, coh_long, coh_wide, coh_retrim,
                   insar_pair_csv, insar_long, insar_wide>>
    /\ UNCHANGED <<quake_vars, summary_vars, marker_vars, baseline_vars,
                   plot_vars, beam_vars, fetch_vars>>

ReshapeNext ==
    \/ ReadCoherence
    \/ ReadInsarPair
    \/ PivotAndClean
    \/ PivotAndCleanInsar
    \/ Retrim
    \/ RetrimInsar
    \/ EndRequest

Init ==
    /\ ReshapeInit /\ QuakeInit /\ SummaryInit /\ MarkerInit
    /\ BaselineInit /\ PlotInit /\ BeamInit /\ FetchInit

SpecReshape == Init /\ [][ReshapeNext]_vars

\* ------------------------------------------------------- event query actions
GetLatestQuakes ==
    /\ quake_call = ""
    /\ \E response \in Responses :
        /\ quake_response' = response
        /\ quake_df' = get_latest_quakes_chis_fsdn(response)
    /\ quake_call' = "fsdn"
    /\ UNCHANGED <<reshape_vars, summary_vars, marker_vars, baseline_vars,
                   plot_vars, beam_vars, fetch_vars>>

GetLatestQuakesSite ==
    /\ quake_call = ""
    /\ \E response \in Responses :
        /\ quake_response' = response
        /\ quake_df' = get_latest_quakes_chis_fsdn_site(response)
    /\ quake_call' = "fsdn_site"
    /\ UNCHANGED <<reshape_vars, summary_vars, marker_vars, baseline_vars,
                   plot_vars, beam_vars, fetch_vars>>

\* the callback that asked for the events is done
EndQuakeQuery ==
    /\ quake_call # ""
    /\ quake_call' = ""
    /\ quake_response' = NoResponse
    /\ quake_df' = NoQuakes
    /\ UNCHANGED <<reshape_vars, summary_vars, marker_vars, baseline_vars,
                   plot_vars, beam_vars, fetch_vars>>

QuakeNext ==
    \/ GetLatestQuakes
    \/ GetLatestQuakesSite
    \/ EndQuakeQuery

SpecQuakes == Init /\ [][QuakeNext]_vars

\* ------------------------------------------------------ summary table actions
BuildSummaryTable ==
    /\ summary_table_df = NoSummary
    /\ \E targs_geojson \in TargetsGeojsons, unrest_table_df \in UnrestTables :
        \E responses \in [WantedIds(targs_geojson) -> SiteResponses] :
            /\ targets_geojson' = targs_geojson
            /\ unrest_table' = unrest_table_df
            /\ site_responses' = responses
            /\ summary_table_df' =
                  build_summary_table(targs_geojson, unrest_table_df, responses)
    /\ UNCHANGED <<reshape_vars, quake_vars, marker_vars, baseline_vars,
                   plot_vars, beam_vars, fetch_vars>>

\* the page that asked for the table is rendered
EndSummary ==
    /\ summary_table_df # NoSummary
    /\ targets_geojson' = None
    /\ unrest_table' = NoUnrestTable
    /\ site_responses' = NoResponses
    /\ summary_table_df' = NoSummary
    /\ UNCHANGED <<reshape_vars, quake_vars, marker_vars, baseline_vars,
                   plot_vars, beam_vars, fetch_vars>>

SummaryNext ==
    \/ BuildSummaryTable
    \/ EndSummary

SpecSummary == Init /\ [][SummaryNext]_vars

\* ------------------------------------------------------- map marker actions
\* the map page is requested: the API and the unrest table are in some state
OpenMap ==
    /\ footprint_answer = NoAnswer
    /\ \E answer \in FootprintAnswers, unrest_table_df \in UnrestTables :
        \E responses \in [WantedIds(answer) -> SiteResponses] :
            /\ footprint_answer' = answer
            /\ map_unrest' = unrest_table_df
            /\ map_responses' = responses
    /\ UNCHANGED <<green_markers, red_markers>>
    /\ UNCHANGED <<reshape_vars, quake_vars, summary_vars, baseline_vars,
                   plot_vars, beam_vars, fetch_vars>>

\* what read_targets_geojson and build_summary_table give for the page
MapTargets == read_targets_geojson(footprint_answer, map_unrest)
MapSummary == build_summary_table(MapTargets, map_unrest, map_responses)

GetGreenVolcanoes ==
    /\ footprint_answer # NoAnswer
    /\ green_markers = NoMarkers
    /\ green_markers' = get_green_volcanoes(MapTargets, MapSummary)
    /\ UNCHANGED <<footprint_answer, map_unrest, map_responses, red_markers>>
    /\ UNCHANGED <<reshape_vars, quake_vars, summary_vars, baseline_vars,
                   plot_vars, beam_vars, fetch_vars>>

GetRedVolcanoes ==
    /\ footprint_answer # NoAnswer
    /\ red_markers = NoMarkers
    /\ red_markers' = get_red_volcanoes(MapTargets, MapSummary)
    /\ UNCHANGED <<footprint_answer, map_unrest, map_responses, green_markers>>
    /\ UNCHANGED <<reshape_vars, quake_vars, summary_vars, baseline_vars,
                   plot_vars, beam_vars, fetch_vars>>

\* the map page is rendered
CloseMap ==
    /\ footprint_answer # NoAnswer
    /\ footprint_answer' = NoAnswer
    /\ map_unrest' = NoUnrestTable
    /\ map_responses' = NoResponses
    /\ green_markers' = NoMarkers
    /\ red_markers' = NoMarkers
    /\ UNCHANGED <<reshape_vars, quake_vars, summary_vars, baseline_vars,
                   plot_vars, beam_vars, fetch_vars>>

MarkerNext ==
    \/ OpenMap
    \/ GetGreenVolcanoes
    \/ GetRedVolcanoes
    \/ CloseMap

SpecMarkers == Init /\ [][MarkerNext]_vars

\* ---------------------------------------------------- baseline chart actions
\* the tables the readers give without raising
ReadTables(read_csvs) == {t \in read_csvs : t.status \in {"None", "returned"}}

\* the baseline chart of a target is drawn from the two tables read for it
PlotBaseline ==
    /\ bperp_combined_fig = NoFigure
    /\ \E baseline \in ReadTables({_read_baseline(csv) : csv \in BaselineCsvs}),
          cohfull \in ReadTables({_read_coherence(csv) : csv \in CohfullCsvs}) :
        /\ df_baseline' = baseline
        /\ df_cohfull' = cohfull
        /\ bperp_combined_fig' = plot_baseline(baseline, cohfull)
    /\ UNCHANGED <<reshape_vars, quake_vars, summary_vars, marker_vars,
                   plot_vars, beam_vars, fetch_vars>>

\* the chart is sent to the page
EndBaseline ==
    /\ bperp_combined_fig # NoFigure
    /\ df_baseline' = NoTable
    /\ df_cohfull' = NoTable
    /\ bperp_combined_fig' = NoFigure
    /\ UNCHANGED <<reshape_vars, quake_vars, summary_vars, marker_vars,
                   plot_vars, beam_vars, fetch_vars>>

BaselineNext ==
    \/ PlotBaseline
    \/ EndBaseline

SpecBaseline == Init /\ [][BaselineNext]_vars

\* ------------------------------------------------------------ heatmap actions
\* plot_coherence is called with what _read_coherence returned: with None
\* it returns the empty figure, otherwise it adds delta_days and builds
\* coh_wide, then date_wide unless pivot_and_clean raised
PlotCoherence ==
    /\ heatmap_long = NoTable
    /\ \E read \in ReadTables({_read_coherence(csv) : csv \in PlotCsvs}) :
        /\ heatmap_long' = read
        /\ IF read.status = "None"
           THEN heatmap_wide' = Raised("None") /\ date_wide' = Raised("None")
           ELSE LET long == with_delta_days(read.rows)
                    wide == pivot_and_clean(long)
                IN /\ heatmap_wide' = wide
                   /\ date_wide' = IF wide.status # "returned" THEN wide
                                   ELSE pivot_and_clean_dates(long, wide)
    /\ UNCHANGED <<reshape_vars, quake_vars, summary_vars, marker_vars,
                   baseline_vars, beam_vars, fetch_vars>>

\* the figure is sent to the page
EndPlot ==
    /\ heatmap_long # NoTable
    /\ heatmap_long' = NoTable
    /\ heatmap_wide' = NoFrame
    /\ date_wide' = NoFrame
    /\ UNCHANGED <<reshape_vars, quake_vars, summary_vars, marker_vars,
                   baseline_vars, beam_vars, fetch_vars>>

PlotNext ==
    \/ PlotCoherence
    \/ EndPlot

SpecPlot == Init /\ [][PlotNext]_vars

\* ------------------------------------------------------ beam selector actions
PopulateBeamSelector ==
    /\ beam_dict = NoBeamDict
    /\ \E beam_response_dict \in BeamResponses,
          targets_response_dict \in TargetResponses :
        /\ beam_response' = beam_response_dict
        /\ targets_response' = targets_response_dict
        /\ beam_dict' =
              populate_beam_selector(beam_response_dict, targets_response_dict)
    /\ UNCHANGED <<reshape_vars, quake_vars, summary_vars, marker_vars,
                   baseline_vars, plot_vars, fetch_vars>>

\* the selector is filled
EndBeamSelector ==
    /\ beam_dict # NoBeamDict
    /\ beam_response' = NoApiResponse
    /\ targets_response' = NoApiResponse
    /\ beam_dict' = NoBeamDict
    /\ UNCHANGED <<reshape_vars, quake_vars, summary_vars, marker_vars,
                   baseline_vars, plot_vars, fetch_vars>>

BeamNext ==
    \/ PopulateBeamSelector
    \/ EndBeamSelector

SpecBeams == Init /\ [][BeamNext]_vars

\* -------------------------------------------------------------- fetch actions
OtherThanFetch ==
    <<reshape_vars, quake_vars, summary_vars, marker_vars, baseline_vars,
      plot_vars, beam_vars>>

\* the script starts: beamList.yml is loaded; the bucket holds the files of
\* some of its pairs and some of the directories exist already
GetLatestInsarPairs ==
    /\ fetch_pc = "idle"
    /\ \E yml \in BeamListYmls :
        \E objects \in SUBSET Range(SiteBeams(yml)),
           dirs \in SUBSET Range(SiteBeams(yml)) :
            /\ beam_list' = SiteBeams(yml)
            /\ bucket_objects' = objects
            /\ local_dirs' = dirs
    /\ fetch_pc' = "loop"
    /\ fetch_next' = 1
    /\ local_files' = {}
    /\ download_calls' = <<>>
    /\ UNCHANGED OtherThanFetch

\* one iteration of the inner loop: the directory is made when it does not
\* exist, then the file is downloaded
FetchPair ==
    /\ fetch_pc = "loop"
    /\ fetch_next <= Len(beam_list)
    /\ LET site_beam == beam_list[fetch_next]
           download == download_file(site_beam, bucket_objects, local_files)
       IN /\ local_dirs' = IF site_beam \notin local_dirs
                           THEN local_dirs \cup {site_beam} ELSE local_dirs
          /\ download_calls' = Append(download_calls, site_beam)
          /\ local_files' = download.files
          /\ fetch_pc' = IF download.raised # "" THEN download.raised ELSE "loop"
    /\ fetch_next' = fetch_next + 1
    /\ UNCHANGED <<beam_list, bucket_objects>>
    /\ UNCHANGED OtherThanFetch

\* both loops are exhausted: 'DONE get_latest_insar_pairs' is logged
FinishFetch ==
    /\ fetch_pc = "loop"
    /\ fetch_next > Len(beam_list)
    /\ fetch_pc' = "done"
    /\ UNCHANGED <<beam_list, fetch_next, bucket_objects, local_dirs,
                   local_files, download_calls>>
    /\ UNCHANGED OtherThanFetch

\* the process of the script ends
EndFetch ==
    /\ fetch_pc \notin {"idle", "loop"}
    /\ fetch_pc' = "idle"
    /\ beam_list' = <<>>
    /\ fetch_next' = 1
    /\ bucket_objects' = {}
    /\ local_dirs' = {}
    /\ local_files' = {}
    /\ download_calls' = <<>>
    /\ UNCHANGED OtherThanFetch

FetchNext ==
    \/ GetLatestInsarPairs
    \/ FetchPair
    \/ FinishFetch
    \/ EndFetch

\* the script is sequential code: once started, its loop goes on
SpecFetch ==
    Init /\ [][FetchNext]_vars /\ WF_vars(FetchPair) /\ WF_vars(FinishFetch)

\* ------------------------------------------------------ reshaper properties
HasNullZeroRow(wide) ==
    /\ 0 \in Range(wide.index)
    /\ \A c \in Range(wide.columns) : wide.cell[<<0, c>>] = NaN

\* the non-null cells of a matrix, as (delta_days, second_date, value)
NonNullCells(wide) ==
    {<<p[1], p[2], wide.cell[p][1]>> : p \in {q \in DOMAIN wide.cell : wide.cell[q] # NaN}}

\* C1: the matrix returned by pivot_and_clean has a delta_days = 0 row and
\* every cell of that row is null, also when a record has first_date =
\* second_date and a non-null coherence.
C1_ZeroRowAlwaysNull ==
    coh_wide.status = "returned" => HasNullZeroRow(coh_wide)

\* a record with first_date = second_date and a coherence, whose column is
\* part of the matrix pivot_and_clean returned
C1_Witness ==
    /\ coh_wide.status = "returned"
    /\ \E r \in coh_long.rows :
        /\ r.first_date = r.second_date
        /\ r.coherence # NaN
        /\ r.second_date \in Range(coh_wide.columns)

\* C2: the matrix returned by pivot_and_clean_insar has a delta_days = 0
\* row, every cell of it null: the synthetic row survives the trimming.
C2_InsarZeroRowSurvives ==
    insar_wide.status = "returned" => HasNullZeroRow(insar_wide)

\* C3: each reader raises RuntimeError if and only if a record of the file
\* has second_date < first_date together with a non-null value; without the
\* error every record of the file is returned.
C3_RaisesIffWrongOrder ==
    /\ coh_long.status = "RuntimeError" <=>
          /\ coherence_csv.kind = "file"
          /\ \E r \in coherence_csv.rows :
                r.second_date < r.first_date /\ r.coherence # NaN
    /\ insar_long.status = "RuntimeError" <=>
          /\ insar_pair_csv.kind = "file"
          /\ \E r \in insar_pair_csv.rows :
                r.second_date < r.first_date /\ r.insar_pair # NaN
    /\ (coherence_csv.kind = "file" /\ coh_long.status \notin {"unset", "RuntimeError"})
          => coh_long = Table("returned", coherence_csv.rows)
    /\ (insar_pair_csv.kind = "file" /\ insar_long.status \notin {"unset", "RuntimeError"})
          => insar_long = Table("returned", insar_pair_csv.rows)

\* _read_coherence returned a file that holds a record with second_date <
\* first_date and a null coherence
C3_Witness ==
    /\ coh_long.status = "returned"
    /\ \E r \in coherence_csv.rows :
        r.second_date < r.first_date /\ r.coherence = NaN

\* C4 as stated: the non-null cells of the matrix are exactly the records
\* with a non-null value, each at (second_date - first_date, second_date)
\* and rounded to 2 decimals.
C4_CellsAreAllValuedRecords ==
    coh_wide.status = "returned" =>
        NonNullCells(coh_wide) =
            {<<r.second_date - r.first_date, r.second_date, Round2(r.coherence[1])>>
             : r \in {x \in coh_long.rows : x.coherence # NaN}}

\* C4, amended: the non-null cells of the matrix are exactly the records
\* with a non-null value and second_date > first_date, each at
\* (second_date - first_date, second_date) and rounded to 2 decimals; the
\* single record (day 1, day 13, 0.9) gives the rows 0 and 12, the column
\* day 13 and the one non-null cell (12, day 13) = 0.90.
C4_CellsAreValuedLaterRecords ==
    /\ coh_wide.status = "returned" =>
        NonNullCells(coh_wide) =
            {<<r.second_date - r.first_date, r.second_date, Round2(r.coherence[1])>>
             : r \in {x \in coh_long.rows :
                        x.coherence # NaN /\ x.second_date > x.first_date}}
    /\ (/\ coh_wide # NoFrame
        /\ coh_long.rows =
             {[first_date |-> 1, second_date |-> 13, coherence |-> <<900>>]})
       => /\ coh_wide.status = "returned"
          /\ coh_wide.index = <<0, 12>>
          /\ coh_wide.columns = <<13>>
          /\ coh_wide.cell[<<0, 13>>] = NaN
          /\ coh_wide.cell[<<12, 13>>] = <<900>>

\* a matrix was returned for records of which one has equal dates and a
\* coherence, and another a coherence that rounding changes
C4_Witness ==
    /\ coh_wide.status = "returned"
    /\ \E r \in coh_long.rows : r.first_date = r.second_date /\ r.coherence # NaN
    /\ \E r \in coh_long.rows :
        /\ r.second_date > r.first_date
        /\ r.coherence = <<904>>
        /\ coh_wide.cell[<<r.second_date - r.first_date, r.second_date>>] = <<900>>

\* C5: trimming a matrix that pivot_and_clean (pivot_and_clean_insar)
\* returned, once more, gives the same row index, column index and cells.
C5_TrimIdempotent ==
    /\ coh_retrim # NoFrame => coh_retrim = coh_wide
    /\ insar_retrim # NoFrame => insar_retrim = insar_wide

\* the matrix was trimmed of a column of the pivot, then trimmed again
C5_Witness ==
    /\ coh_retrim.status = "returned"
    /\ \E r \in coh_long.rows : r.second_date \notin Range(coh_wide.columns)

\* the first, last column and the last row hold a non-null cell, and so does
\* the first row unless it is the delta_days = 0 row
EdgesValid(wide) ==
    /\ wide.index # <<>>
    /\ wide.columns # <<>>
    /\ ColValid(wide, wide.columns[1])
    /\ ColValid(wide, wide.columns[Len(wide.columns)])
    /\ RowValid(wide, wide.index[Len(wide.index)])
    /\ wide.index[1] # 0 => RowValid(wide, wide.index[1])

Inside(wide, r) ==
    /\ r.second_date - r.first_date \in Range(wide.index)
    /\ r.second_date \in Range(wide.columns)

\* C6 as stated: the matrix is the bounding box of its non-null cells, and
\* no record with a non-null value lies outside its rows and columns.
C6_BoundingBoxOfAllValuedRecords ==
    /\ coh_wide.status = "returned" =>
        /\ EdgesValid(coh_wide)
        /\ \A r \in coh_long.rows : r.coherence # NaN => Inside(coh_wide, r)
    /\ insar_wide.status = "returned" =>
        /\ EdgesValid(insar_wide)
        /\ \A r \in insar_long.rows : r.insar_pair # NaN => Inside(insar_wide, r)

\* C6, amended: the matrix is the bounding box of its non-null cells, and no
\* record with a non-null value and second_date > first_date lies outside
\* its rows and columns.
C6_BoundingBoxOfValuedLaterRecords ==
    /\ coh_wide.status = "returned" =>
        /\ EdgesValid(coh_wide)
        /\ \A r \in coh_long.rows :
              (r.coherence # NaN /\ r.second_date > r.first_date)
                  => Inside(coh_wide, r)
    /\ insar_wide.status = "returned" =>
        /\ EdgesValid(insar_wide)
        /\ \A r \in insar_long.rows :
              (r.insar_pair # NaN /\ r.second_date > r.first_date)
                  => Inside(insar_wide, r)

\* a matrix was returned without the all-null first and last column of the
\* pivot
C6_Witness ==
    /\ coh_wide.status = "returned"
    /\ \E a, b \in coh_long.rows :
        /\ a.second_date < coh_wide.columns[1]
        /\ b.second_date > coh_wide.columns[Len(coh_wide.columns)]

\* ---------------------------------------------------- event query properties
ColourOfAge(td) ==
    IF td <= 2 THEN "red"
    ELSE IF td <= 7 THEN "orange"
    ELSE IF td <= 31 THEN "yellow"
    ELSE "white"

\* C7: in both event queries every event gets exactly one colour from its
\* integer age Time_Delta: red up to 2, orange 3..7, yellow 8..31, white
\* above 31; exactly one of the four conditions holds; so 1 -> red,
\* 5 -> orange, 15 -> yellow, 40 -> white.
C7_OneColourPerAge ==
    \A i \in DOMAIN quake_df.rows :
        LET row == quake_df.rows[i]
            td == row.Time_Delta
        IN /\ Cardinality({j \in DOMAIN conditions(td) : conditions(td)[j]}) = 1
           /\ row.quake_colour = ColourOfAge(td)
           /\ td = 1 => row.quake_colour = "red"
           /\ td = 5 => row.quake_colour = "orange"
           /\ td = 15 => row.quake_colour = "yellow"
           /\ td = 40 => row.quake_colour = "white"
           /\ 2 * (td - 1) < row.Age /\ row.Age <= 2 * td

\* the site query returned an event two days old, in red
C7_Witness ==
    /\ quake_call = "fsdn_site"
    /\ \E i \in DOMAIN quake_df.rows :
        /\ quake_df.rows[i].Time_Delta = 2
        /\ quake_df.rows[i].Age = 3
        /\ quake_df.rows[i].quake_colour = "red"

\* C8: when the request to the event catalog fails with a connection
\* failure, each event query returns a table of zero rows and does not
\* raise.
C8_ConnectionErrorGivesEmptyTable ==
    (quake_call # "" /\ quake_response.kind = "ConnectionError")
        => quake_df.status = "returned" /\ quake_df.rows = <<>>

\* get_latest_quakes_chis_fsdn was called and the connection failed
C8_Witness ==
    /\ quake_call = "fsdn"
    /\ quake_response.kind = "ConnectionError"
    /\ quake_df.status = "returned"

\* --------------------------------------------------- summary table properties
ApiErrorRow ==
    SummaryRow("API Connection Error", "API Connection Error",
               "API Connection Error")

\* C9: build_summary_table with a null GeoJSON does not raise and returns
\* exactly one row whose cells Site, Latest SAR Image and Unrest are all
\* "API Connection Error"; it makes no per-site HTTP call.
C9_NullGeojsonGivesSentinelRow ==
    (summary_table_df.status # "unset" /\ targets_geojson = None)
        => /\ summary_table_df.status = "returned"
           /\ Len(summary_table_df.rows) = 1
           /\ summary_table_df.rows[1] = ApiErrorRow
           /\ DOMAIN summary_table_df.rows[1] = {"Site", "Latest SAR Image", "Unrest"}
           /\ summary_table_df.calls = <<>>

\* build_summary_table was called with None and returned
C9_Witness ==
    /\ targets_geojson = None
    /\ summary_table_df.status = "returned"
    /\ summary_table_df.rows # <<>>

\* the cell a site's own response gives
LatestOf(response) ==
    IF response.kind = "response" /\ response.last_slc_datetime # <<>>
    THEN <<format_output(response)>>
    ELSE <<>>

\* C10: for a non-null GeoJSON with at least one qualifying site and any
\* per-site outcomes, build_summary_table returns without raising a table
\* with one row per qualifying site; the Latest SAR Image cell of a site
\* whose call failed is null and every other cell is the one computed from
\* the site's own response.
C10_OneRowPerQualifyingSite ==
    (/\ summary_table_df.status # "unset"
     /\ targets_geojson.kind = "geojson"
     /\ WantedIds(targets_geojson) # {})
        => /\ summary_table_df.status = "returned"
           /\ Len(summary_table_df.rows) = Cardinality(WantedIds(targets_geojson))
           /\ \A k \in DOMAIN targets_geojson.features :
                LET feature == targets_geojson.features[k]
                IN contains_A_or_Edgecumbe(feature.id) =>
                     \E i \in DOMAIN summary_table_df.rows :
                        LET row == summary_table_df.rows[i]
                        IN /\ DOMAIN row = {"Site", "Latest SAR Image", "Unrest"}
                           /\ row["Site"] = feature.name_en
                           /\ row["Latest SAR Image"] =
                                 LatestOf(site_responses[feature.id])
                           /\ row["Unrest"] = unrest_table[feature.name_en]

\* C20: when the event catalog answers with a status other than 200, both
\* event queries return an empty table and neither raises.
C20_OtherStatusGivesEmptyTable ==
    (/\ quake_call # ""
     /\ quake_response.kind = "response"
     /\ quake_response.status_code # 200)
        => quake_df.status = "returned" /\ quake_df.rows = <<>>

\* C14: a path whose file does not exist is no data: each reader returns
\* None and does not raise.
C14_MissingFileIsNoData ==
    /\ (coherence_csv.kind = "missing" /\ coh_long # NoTable)
          => coh_long.status = "None"
    /\ (insar_pair_csv.kind = "missing" /\ insar_long # NoTable)
          => insar_long.status = "None"
    /\ _read_baseline(MissingFile).status = "None"

\* --------------------------------------------------------- marker properties
IsFallback(markers, id) ==
    /\ markers.status = "returned"
    /\ Len(markers.markers) = 1
    /\ markers.markers[1].position = <<0, 0>>
    /\ markers.markers[1].children = <<"API Error">>
    /\ markers.markers[1].id = <<id>>

\* C11: when read_targets_geojson returned null, get_green_volcanoes and
\* get_red_volcanoes each return exactly one marker, at position [0, 0]
\* with the tooltip "API Error", and do not raise.
C11_NullGeojsonGivesOneFallbackMarker ==
    (footprint_answer # NoAnswer /\ MapTargets = None)
        => /\ green_markers # NoMarkers
                => IsFallback(green_markers, "TypeError_green")
           /\ red_markers # NoMarkers
                => IsFallback(red_markers, "TypeError_red")

C11_Witness ==
    /\ footprint_answer.kind = "ConnectionError"
    /\ MapTargets = None
    /\ Len(green_markers.markers) = 1
    /\ Len(red_markers.markers) = 1

HasMarker(markers, feature) ==
    \E k \in DOMAIN markers.markers :
        markers.markers[k].id = <<"marker", feature.name_en>>

\* C12: every site of the summary table, a feature whose id starts with A
\* or is Edgecumbe, has a marker in exactly one of the two sets: the green
\* one when its Unrest is false, the red one when its Unrest is true.
C12_EachSiteInExactlyOneSet ==
    (/\ MapTargets.kind = "geojson"
     /\ green_markers.status = "returned"
     /\ red_markers.status = "returned")
        => \A k \in DOMAIN MapTargets.features :
              LET feature == MapTargets.features[k]
                  unrest == unrest_of(MapSummary, feature)
              IN (feature.id[1] = "A" \/ feature.id = <<"Edgecumbe">>)
                    => /\ HasMarker(green_markers, feature)
                            # HasMarker(red_markers, feature)
                       /\ unrest = <<FALSE>> => HasMarker(green_markers, feature)
                       /\ unrest = <<TRUE>> => HasMarker(red_markers, feature)

\* C17: for a connection failure, an elapsed timeout and a body that is not
\* valid GeoJSON read_targets_geojson returns null and raises nothing; on
\* success every feature has the geometry type Point.
C17_EveryFailureGivesNull ==
    footprint_answer # NoAnswer
        => /\ footprint_answer.kind # "geojson" => MapTargets = None
           /\ footprint_answer.kind = "geojson"
                => /\ MapTargets.kind = "geojson"
                   /\ \A k \in DOMAIN MapTargets.features :
                         MapTargets.features[k].geometry.type = "Point"

\* ------------------------------------------------- baseline chart properties
\* the baseline table lists a date, and lists no date twice
Listed(date) == \E b \in df_baseline.rows : b.second_date = date
EachDateOnce ==
    \A a, b \in df_baseline.rows : a.second_date = b.second_date => a = b

\* the bperp the baseline table gives for a date, null when it gives none
BperpOf(date) ==
    IF Listed(date)
    THEN <<(CHOOSE b \in df_baseline.rows : b.second_date = date).bperp>>
    ELSE NaN

\* the chart has exactly one segment for the pair, between its two dates
OneSegment(pair) ==
    /\ Cardinality({s \in bperp_combined_fig.segments : s.edge = pair}) = 1
    /\ \A s \in bperp_combined_fig.segments :
          s.edge = pair
              => /\ s.x = <<pair.first_date, pair.second_date>>
                 /\ s.y = <<BperpOf(pair.first_date), BperpOf(pair.second_date)>>

NoSegment(pair) == \A s \in bperp_combined_fig.segments : s.edge # pair

Drawn ==
    /\ bperp_combined_fig.status = "returned"
    /\ df_baseline.status = "returned"
    /\ df_cohfull.status = "returned"

EmptyChartWhenAbsent ==
    (/\ bperp_combined_fig.status = "returned"
     /\ df_baseline.status = "None" \/ df_cohfull.status = "None")
        => bperp_combined_fig.traces = 0 /\ bperp_combined_fig.segments = {}

C15_DateWideHasColumnsOfCohWide ==
    date_wide.status = "returned" => date_wide.columns = heatmap_wide.columns

\* C18: the reference-date matrix has the row index of coh_wide, so that
\* at the position of every non-null cell of coh_wide it holds the
\* first_date of the record of that cell.
C18_DateWideIsCellAligned ==
    date_wide.status = "returned"
        => /\ date_wide.index = heatmap_wide.index
           /\ \A i \in DOMAIN heatmap_wide.index, j \in DOMAIN heatmap_wide.columns :
                 heatmap_wide.cell[<<heatmap_wide.index[i], heatmap_wide.columns[j]>>] # NaN
                    => /\ i \in DOMAIN date_wide.index
                       /\ j \in DOMAIN date_wide.columns
                       /\ date_wide.cell[<<date_wide.index[i], date_wide.columns[j]>>]
                            = strftime(heatmap_wide.columns[j] - heatmap_wide.index[i])

\* ---------------------------------------------------- beam selector properties
\* C19: populate_beam_selector does not raise, and every entry
\* <site>_<beam> it returns has the name and the centroid of a target whose
\* label is the target_label of a beam with that short_name.
C19_EntriesComeFromMatchingTargets ==
    (beam_dict # NoBeamDict /\ beam_response.kind = "list"
        /\ targets_response.kind = "list")
        => /\ beam_dict.status = "returned"
           /\ \A entry \in beam_dict.entries :
                 entry.key # ErrorKey
                    => \E i \in DOMAIN beam_response.items,
                          j \in DOMAIN targets_response.items :
                          LET beam == beam_response.items[i]
                              target == targets_response.items[j]
                              centroid == calc_polygon_centroid(target.ring)
                          IN /\ target.label = beam.target_label
                             /\ entry.key = <<target.name_en, beam.short_name>>
                             /\ entry.value = <<centroid[2], centroid[1]>>

\* ------------------------------------------------------------ fetch properties
\* the downloads attempted so far are the pairs before the current one, each
\* once and in list order; no exception has left the function; on return
\* every pair was attempted and has its directory
FetchInOrder ==
    /\ fetch_pc \in {"idle", "loop", "done"}
    /\ fetch_pc = "loop"
          => download_calls = SubSeq(beam_list, 1, fetch_next - 1)
    /\ fetch_pc = "done"
          => /\ download_calls = beam_list
             /\ \A i \in DOMAIN beam_list : beam_list[i] \in local_dirs
             /\ local_files = Range(beam_list) \cap bucket_objects

\* C16: get_latest_insar_pairs attempts the download once for every
\* (site, beam) of the beam list, in list order, also after a pair whose
\* remote object is missing; it terminates without raising, and on return
\* the local directory of every pair exists.
C16_EveryPairAttemptedOnceInOrder ==
    []FetchInOrder /\ ((fetch_pc = "loop") ~> (fetch_pc = "done"))

C16_Witness ==
    /\ fetch_pc = "done"
    /\ \E i, j \in DOMAIN beam_list :
          /\ i < j
          /\ beam_list[i] \notin bucket_objects
          /\ beam_list[j] \in local_files
          /\ download_calls[i] = beam_list[i]
          /\ download_calls[j] = beam_list[j]

====
